---- MODULE Spec2Model ----
(***************************************************************************)
(* Model of service/src/builder.rs: build_workspace (classification of the *)
(* workspace members, one cargo invocation per class, reconstruction of    *)
(* the artifact paths), BuiltService::service_name and clean_crate.        *)
(*                                                                         *)
(* Strings that the code takes apart (file names, package names, project   *)
(* names, captured output) are sequences of one-character strings.         *)
(***************************************************************************)
EXTENDS Integers, Sequences, FiniteSets, TLC

\* ------------------------------------------------------------------ bounds
MaxMembers == 2     \* workspace members returned by cargo metadata
MaxOut == 2         \* bytes a cargo clean process writes to one stream
MaxCap == 2         \* largest pipe capacity (0 = a write waits for its reader)

\* ------------------------------------------------------------ sequences
Range(s) == {s[i] : i \in 1..Len(s)}

SeqsUpTo(S, n) == UNION {[1..k -> S] : k \in 0..n}

RECURSIVE LastIndexOf(_, _, _)
\* the largest i <= n with s[i] = c, or 0
LastIndexOf(s, c, n) ==
    IF n = 0 THEN 0
    ELSE IF s[n] = c THEN n ELSE LastIndexOf(s, c, n - 1)

Min(a, b) == IF a < b THEN a ELSE b

\* ------------------------------------------------- names and the platform
NEXT_NAME == "shuttle-next"
RUNTIME_NAME == "shuttle-runtime"

\* std::env::consts::EXE_SUFFIX: "" on Unix-like systems, ".exe" on Windows
ExeSuffixes == {<<>>, <<".", "e", "x", "e">>}

\* the package name of the i-th workspace member (unique within a workspace)
NameOf(i) == <<"s", "v", "c", "-", ToString(i)>>

ProjectPath == "root"
Cwd == "cwd"

\* ---------------------------------------------------------------- packages
BinTarget == [kind |-> {"bin"}]
CdylibTarget == [kind |-> {"cdylib", "rlib"}]
LibTarget == [kind |-> {"lib"}]

\* what cargo metadata can report for the member called name
PackagesNamed(name) ==
    [name : {name},
     dependencies : {d \cup {"serde"} : d \in SUBSET {NEXT_NAME, RUNTIME_NAME}},
     targets : {{LibTarget}, {BinTarget}, {CdylibTarget},
                {BinTarget, CdylibTarget}},
     manifest_path : {<<ProjectPath, name, "Cargo.toml">>}]

Workspaces ==
    UNION {{ms \in [1..k -> UNION {PackagesNamed(NameOf(i)) : i \in 1..k}] :
               \A i \in 1..k : ms[i].name = NameOf(i)} : k \in 0..MaxMembers}

\* ------------------------------------------------------------- classifier
is_next(package) == \E dependency \in package.dependencies : dependency = NEXT_NAME

is_alpha(package) == \E dependency \in package.dependencies : dependency = RUNTIME_NAME

is_bin(target) == \E kind \in target.kind : kind = "bin"

is_cdylib(target) == \E kind \in target.kind : kind = "cdylib"

ErrNotBinary == "Your Shuttle project must be a binary."
ErrNotLibrary == "Your Shuttle next project must be a library."
ErrManifest == "failed to read"
ErrMetadata == "cargo metadata failed"
ErrCwd == "current_dir failed"
ErrJobs == "available_parallelism failed"
ErrSpawn == "cargo could not be run"

Ok(v) == [ok |-> TRUE, value |-> v]
Err(e) == [ok |-> FALSE, error |-> e]

\* ensure_binary without its test
ensure_binary_always_ok(package) == Ok(<<>>)

ensure_binary(package) ==
    IF \E target \in package.targets : is_bin(target)
    THEN Ok(<<>>) ELSE Err(ErrNotBinary)

ensure_cdylib(package) ==
    IF \E target \in package.targets : is_cdylib(target)
    THEN Ok(<<>>) ELSE Err(ErrNotLibrary)

\* the class test of one iteration of the member loop, with alpha tested first
member_class_alpha_first(member) ==
    IF is_alpha(member) THEN "alpha"
    ELSE IF is_next(member) THEN "next" ELSE "none"

\* the class test of one iteration of the member loop: next is tested first
member_class(member) ==
    IF is_next(member) THEN "next"
    ELSE IF is_alpha(member) THEN "alpha" ELSE "none"

RECURSIVE classify(_, _, _, _)
\* the member loop from member i on: the first failed ensure_* ends it
classify(ms, i, alpha, next) ==
    IF i > Len(ms) THEN Ok([alpha |-> alpha, next |-> next])
    ELSE LET member == ms[i]
             class == member_class(member)
         IN IF class = "next"
            THEN IF ensure_cdylib(member).ok
                 THEN classify(ms, i + 1, alpha, Append(next, member))
                 ELSE ensure_cdylib(member)
            ELSE IF class = "alpha"
            THEN IF ensure_binary(member).ok
                 THEN classify(ms, i + 1, Append(alpha, member), next)
                 ELSE ensure_binary(member)
            ELSE classify(ms, i + 1, alpha, next)

\* --------------------------------------------------------- artifact paths
\* Path::file_stem: the file name up to its last ".", the whole name when it
\* has no "." or only a leading one
file_stem(file) ==
    LET i == LastIndexOf(file, ".", Len(file))
    IN IF i <= 1 THEN file ELSE SubSeq(file, 1, i - 1)

\* PathBuf::set_extension on the last component: cut back to the stem, then
\* add "." and the extension unless the extension is empty
set_extension(path, extension) ==
    [path EXCEPT !.file =
        file_stem(path.file) \o
        (IF extension = <<>> THEN <<>> ELSE <<".">> \o extension)]

profile_dir(release_mode) == IF release_mode THEN "release" ELSE "debug"

profile_flag(release_mode) == IF release_mode THEN "release" ELSE "dev"

\* one iteration of the output loop of compiler
built_service(package, release_mode, wasm, project_path, cwd, suffix) ==
    IF wasm
    THEN [executable_path |->
              set_extension(
                  [dirs |-> <<project_path, "target", "wasm32-wasi",
                              profile_dir(release_mode)>>,
                   file |-> package.name],
                  <<"w", "a", "s", "m">>),
          is_wasm |-> TRUE,
          package_name |-> package.name,
          working_directory |-> cwd,
          manifest_path |-> package.manifest_path]
    ELSE [executable_path |->
              set_extension(
                  [dirs |-> <<project_path, "target", profile_dir(release_mode)>>,
                   file |-> package.name],
                  suffix),
          is_wasm |-> FALSE,
          package_name |-> package.name,
          working_directory |-> cwd,
          manifest_path |-> package.manifest_path]

Reverse(s) == [i \in 1..Len(s) |-> s[Len(s) + 1 - i]]

\* the output loop run from the last package to the first
compiler_outputs_reversed(packages, release_mode, wasm, project_path, cwd, suffix) ==
    Reverse([i \in 1..Len(packages) |->
        built_service(packages[i], release_mode, wasm, project_path, cwd, suffix)])

\* the output loop of compiler: one BuiltService per package, in order
compiler_outputs(packages, release_mode, wasm, project_path, cwd, suffix) ==
    [i \in 1..Len(packages) |->
        built_service(packages[i], release_mode, wasm, project_path, cwd, suffix)]

\* the command line with the --package loop cut after its first round
cargo_build_first_package_only(packages, release_mode, wasm, project_path) ==
    [subcommand |-> "build",
     manifest_path |-> <<project_path, "Cargo.toml">>,
     packages |-> <<packages[1].name>>,
     profile |-> profile_flag(release_mode),
     target |-> IF wasm THEN "wasm32-wasi" ELSE "host"]

\* the command line compiler assembles (the -j hint is advisory and left out)
cargo_build(packages, release_mode, wasm, project_path) ==
    [subcommand |-> "build",
     manifest_path |-> <<project_path, "Cargo.toml">>,
     packages |-> [i \in 1..Len(packages) |-> packages[i].name],
     profile |-> profile_flag(release_mode),
     target |-> IF wasm THEN "wasm32-wasi" ELSE "host"]

\* ------------------------------------------------------------------- state
VARIABLES
    op,              \* the call in progress: "idle", "build", "name" or "clean"
    exe_suffix,      \* EXE_SUFFIX of the platform the program was built for
    pc,              \* position of build_workspace
    release_mode,    \* argument of build_workspace
    manifest_exists, \* whether <project_path>/Cargo.toml exists
    metadata_calls,  \* cargo metadata runs of this call
    members,         \* metadata.workspace_packages()
    alpha_packages,
    next_packages,
    cargo_log,       \* cargo build processes of this call, oldest first
    runtimes,
    manifest_error_before,  \* the previous build_workspace call returned the
                            \* manifest error
    result,          \* what the call in progress returned
    service,         \* service_name: the BuiltService fields it reads
    shuttle_toml,    \* service_name: <working_directory>/Shuttle.toml
    pipe_cap,        \* clean_crate: capacity of each pipe
    worker_pc,       \* clean_crate: position of the spawn_blocking closure
    caller_pc,       \* clean_crate: position of the calling thread
    output,          \* clean_crate: what Command::output returned
    pending,         \* clean_crate: bytes the current write_all still holds
    pipes,           \* clean_crate: per pipe, bytes in it and writer dropped
    captured         \* clean_crate: per pipe, what read_to_string has so far

buildVars == <<pc, release_mode, manifest_exists, metadata_calls, members,
               alpha_packages, next_packages, cargo_log, runtimes,
               manifest_error_before>>

nameVars == <<service, shuttle_toml>>

cleanVars == <<pipe_cap, worker_pc, caller_pc, output, pending, pipes, captured>>

NoResult == Err("no result yet")

BuildIdle ==
    /\ pc = "idle"
    /\ release_mode = FALSE
    /\ manifest_exists = FALSE
    /\ metadata_calls = 0
    /\ members = <<>>
    /\ alpha_packages = <<>>
    /\ next_packages = <<>>
    /\ cargo_log = <<>>
    /\ runtimes = <<>>

\* ---------------------------------------------------------- build_workspace
Fail(error) ==
    /\ result' = Err(error)
    /\ pc' = "done"

\* the manifest check passes whether or not the file exists
build_workspace_enter_unchecked ==
    /\ op = "idle"
    /\ op' = "build"
    /\ \E exists \in BOOLEAN, release \in BOOLEAN :
        /\ manifest_exists' = exists
        /\ release_mode' = release
        /\ pc' = "metadata"
        /\ UNCHANGED result
    /\ UNCHANGED <<metadata_calls, members, alpha_packages, next_packages,
                   cargo_log, runtimes>>
    /\ UNCHANGED <<exe_suffix, manifest_error_before, nameVars, cleanVars>>

\* entry of build_workspace up to the manifest check
build_workspace_enter ==
    /\ op = "idle"
    /\ op' = "build"
    /\ \E exists \in BOOLEAN, release \in BOOLEAN :
        /\ manifest_exists' = exists
        /\ release_mode' = release
        /\ IF ~exists
           THEN Fail(ErrManifest)
           ELSE pc' = "metadata" /\ UNCHANGED result
    /\ UNCHANGED <<metadata_calls, members, alpha_packages, next_packages,
                   cargo_log, runtimes>>
    /\ UNCHANGED <<exe_suffix, manifest_error_before, nameVars, cleanVars>>

\* MetadataCommand::exec
metadata_exec ==
    /\ op = "build" /\ pc = "metadata"
    /\ metadata_calls' = metadata_calls + 1
    /\ \/ Fail(ErrMetadata) /\ UNCHANGED members
       \/ \E ms \in Workspaces :
            /\ members' = ms
            /\ pc' = "classify"
            /\ UNCHANGED result
    /\ UNCHANGED <<op, release_mode, manifest_exists, alpha_packages,
                   next_packages, cargo_log, runtimes>>
    /\ UNCHANGED <<exe_suffix, manifest_error_before, nameVars, cleanVars>>

\* the member loop, then current_dir
classify_members ==
    /\ op = "build" /\ pc = "classify"
    /\ LET c == classify(members, 1, <<>>, <<>>)
       IN IF ~c.ok
          THEN Fail(c.error) /\ UNCHANGED <<alpha_packages, next_packages>>
          ELSE \/ Fail(ErrCwd) /\ UNCHANGED <<alpha_packages, next_packages>>
               \/ /\ alpha_packages' = c.value.alpha
                  /\ next_packages' = c.value.next
                  /\ pc' = "alpha"
                  /\ UNCHANGED result
    /\ UNCHANGED <<op, release_mode, manifest_exists, metadata_calls, members,
                   cargo_log, runtimes>>
    /\ UNCHANGED <<exe_suffix, manifest_error_before, nameVars, cleanVars>>

\* compiler up to the start of the cargo process
compiler_spawn(packages, wasm, waiting) ==
    \/ Fail(ErrJobs) /\ UNCHANGED cargo_log
    \/ /\ cargo_log' = Append(cargo_log,
            [command |-> cargo_build(packages, release_mode, wasm, ProjectPath),
             status |-> "running"])
       /\ pc' = waiting
       /\ UNCHANGED result

ExitStatuses == {"exit0", "exit1"}

SetStatus(log, status) == [log EXCEPT ![Len(log)].status = status]

\* the alpha batch fails without ending the call
alpha_batch_end_swallows_error ==
    /\ op = "build" /\ pc = "alpha_wait"
    /\ \E status \in {"failed_to_run"} \cup ExitStatuses :
        /\ cargo_log' = SetStatus(cargo_log, status)
        /\ pc' = "next"
        /\ UNCHANGED result
        /\ IF status = "failed_to_run"
           THEN UNCHANGED runtimes
           ELSE runtimes' = runtimes \o
                    compiler_outputs(alpha_packages, release_mode, FALSE,
                                     ProjectPath, Cwd, exe_suffix)
    /\ UNCHANGED <<op, release_mode, manifest_exists, metadata_calls, members,
                   alpha_packages, next_packages>>
    /\ UNCHANGED <<exe_suffix, manifest_error_before, nameVars, cleanVars>>

\* if !alpha_packages.is_empty() { compiler(...) up to the cargo process
alpha_batch_begin ==
    /\ op = "build" /\ pc = "alpha"
    /\ IF alpha_packages = <<>>
       THEN pc' = "next" /\ UNCHANGED <<result, cargo_log>>
       ELSE compiler_spawn(alpha_packages, FALSE, "alpha_wait")
    /\ UNCHANGED <<op, release_mode, manifest_exists, metadata_calls, members,
                   alpha_packages, next_packages, runtimes>>
    /\ UNCHANGED <<exe_suffix, manifest_error_before, nameVars, cleanVars>>

\* cargo.output()? returns; the exit status is not looked at; the outputs are
\* appended to runtimes
alpha_batch_end ==
    /\ op = "build" /\ pc = "alpha_wait"
    /\ \E status \in {"failed_to_run"} \cup ExitStatuses :
        /\ cargo_log' = SetStatus(cargo_log, status)
        /\ IF status = "failed_to_run"
           THEN Fail(ErrSpawn) /\ UNCHANGED runtimes
           ELSE /\ runtimes' = runtimes \o
                      compiler_outputs(alpha_packages, release_mode, FALSE,
                                       ProjectPath, Cwd, exe_suffix)
                /\ pc' = "next"
                /\ UNCHANGED result
    /\ UNCHANGED <<op, release_mode, manifest_exists, metadata_calls, members,
                   alpha_packages, next_packages>>
    /\ UNCHANGED <<exe_suffix, manifest_error_before, nameVars, cleanVars>>

\* if !next_packages.is_empty() { compiler(...) up to the cargo process;
\* with no next package the call returns Ok(runtimes)
next_batch_begin ==
    /\ op = "build" /\ pc = "next"
    /\ IF next_packages = <<>>
       THEN result' = Ok(runtimes) /\ pc' = "done" /\ UNCHANGED cargo_log
       ELSE compiler_spawn(next_packages, TRUE, "next_wait")
    /\ UNCHANGED <<op, release_mode, manifest_exists, metadata_calls, members,
                   alpha_packages, next_packages, runtimes>>
    /\ UNCHANGED <<exe_suffix, manifest_error_before, nameVars, cleanVars>>

next_batch_end ==
    /\ op = "build" /\ pc = "next_wait"
    /\ \E status \in {"failed_to_run"} \cup ExitStatuses :
        /\ cargo_log' = SetStatus(cargo_log, status)
        /\ IF status = "failed_to_run"
           THEN Fail(ErrSpawn) /\ UNCHANGED runtimes
           ELSE /\ runtimes' = runtimes \o
                      compiler_outputs(next_packages, release_mode, TRUE,
                                       ProjectPath, Cwd, exe_suffix)
                /\ result' = Ok(runtimes')
                /\ pc' = "done"
    /\ UNCHANGED <<op, release_mode, manifest_exists, metadata_calls, members,
                   alpha_packages, next_packages>>
    /\ UNCHANGED <<exe_suffix, manifest_error_before, nameVars, cleanVars>>

\* the caller takes the result; the locals of the call are gone
build_workspace_return ==
    /\ op = "build" /\ pc = "done"
    /\ op' = "idle"
    /\ pc' = "idle"
    /\ release_mode' = FALSE
    /\ manifest_exists' = FALSE
    /\ metadata_calls' = 0
    /\ members' = <<>>
    /\ alpha_packages' = <<>>
    /\ next_packages' = <<>>
    /\ cargo_log' = <<>>
    /\ runtimes' = <<>>
    /\ manifest_error_before' = (result = Err(ErrManifest))
    /\ result' = NoResult
    /\ UNCHANGED <<exe_suffix, nameVars, cleanVars>>

\* ------------------------------------------------------------ service_name
NoToml == [state |-> "missing"]
NoService == [package_name |-> <<>>, working_directory |-> Cwd]

\* strings tried as project names and as the "name" of Shuttle.toml
NameStrings ==
    {NameOf(1), <<"a", "p", "p">>, <<"a", " ", "b">>, <<>>}

TomlValues ==
    [type : {"string"}, str : NameStrings] \cup {[type |-> "integer", int |-> 7]}

\* the file at <working_directory>/Shuttle.toml: absent, not TOML, or a table
ShuttleTomls ==
    {NoToml, [state |-> "unparsable"]} \cup
    {[state |-> "table", table |-> t] :
        t \in UNION {[keys -> TomlValues] :
                        keys \in {{}, {"name"}, {"version"}}}}

ProjectNameChars ==
    {"a", "b", "c", "p", "s", "v", "-", "_", "0", "1", "2", "3", "4", "5"}

\* str::parse::<ProjectName>
parse_project_name(name) ==
    IF name # <<>> /\ \A i \in 1..Len(name) : name[i] \in ProjectNameChars
    THEN Ok(name) ELSE Err("invalid project name")

extract_shuttle_toml_name(file) ==
    IF file.state = "missing" THEN Err("Shuttle.toml not found")
    ELSE IF file.state = "unparsable" THEN Err("failed to parse Shuttle.toml")
    ELSE IF "name" \notin DOMAIN file.table
    THEN Err("no name key in Shuttle.toml")
    ELSE IF file.table["name"].type # "string"
    THEN Err("name key in Shuttle.toml must be a string")
    ELSE Ok(file.table["name"].str)

service_name(svc, file) ==
    LET extracted == extract_shuttle_toml_name(file)
    IN IF extracted.ok
       THEN parse_project_name(extracted.value)
       ELSE parse_project_name(svc.package_name)

service_name_call ==
    /\ op = "idle"
    /\ op' = "name"
    /\ \E name \in NameStrings, file \in ShuttleTomls :
        /\ service' = [package_name |-> name, working_directory |-> Cwd]
        /\ shuttle_toml' = file
        /\ result' = service_name(service', file)
    /\ UNCHANGED <<exe_suffix, buildVars, cleanVars>>

service_name_return ==
    /\ op = "name"
    /\ op' = "idle"
    /\ service' = NoService
    /\ shuttle_toml' = NoToml
    /\ result' = NoResult
    /\ UNCHANGED <<exe_suffix, buildVars, cleanVars>>

\* -------------------------------------------------------------- clean_crate
Streams == {"stdout", "stderr", "status"}
Bytes == {"a", "b"}
PipeCaps == 0..MaxCap

NoOutput == [profile |-> "none", success |-> FALSE, stdout |-> <<>>, stderr |-> <<>>]
EmptyPipes == [p \in Streams |-> [buf |-> <<>>, writer_dropped |-> FALSE]]
NothingCaptured == [p \in Streams |-> <<>>]

\* what cargo clean --profile <profile> can exit with
Outputs(profile) ==
    [profile : {profile}, success : BOOLEAN,
     stdout : SeqsUpTo(Bytes, MaxOut), stderr : SeqsUpTo(Bytes, MaxOut)]

StatusBytes(success) ==
    IF success THEN <<"t", "r", "u", "e">> ELSE <<"f", "a", "l", "s", "e">>

CleanIdle ==
    /\ pipe_cap = 0
    /\ worker_pc = "none"
    /\ caller_pc = "none"
    /\ output = NoOutput
    /\ pending = <<>>
    /\ pipes = EmptyPipes
    /\ captured = NothingCaptured

\* entry of clean_crate: the three pipes, the worker is spawned, the caller
\* goes on to read the status pipe
clean_crate_enter ==
    /\ op = "idle"
    /\ op' = "clean"
    /\ \E cap \in PipeCaps, release \in BOOLEAN :
        /\ pipe_cap' = cap
        /\ output' = [NoOutput EXCEPT !.profile = profile_flag(release)]
    /\ worker_pc' = "run"
    /\ caller_pc' = "status"
    /\ UNCHANGED <<pending, pipes, captured, result>>
    /\ UNCHANGED <<exe_suffix, buildVars, nameVars>>

\* Command::output().unwrap(): the process exits, or could not be started and
\* the worker panics, which drops its three writers
worker_run ==
    /\ op = "clean" /\ worker_pc = "run"
    /\ \/ /\ worker_pc' = "gone"
          /\ pipes' = [p \in Streams |-> [pipes[p] EXCEPT !.writer_dropped = TRUE]]
          /\ UNCHANGED <<output, pending>>
       \/ \E out \in Outputs(output.profile) :
            /\ output' = out
            /\ pending' = out.stdout
            /\ worker_pc' = "stdout"
            /\ UNCHANGED pipes
    /\ UNCHANGED <<op, pipe_cap, caller_pc, captured, result>>
    /\ UNCHANGED <<exe_suffix, buildVars, nameVars>>

\* how many of the pending bytes the pipe takes now
Writable(p) ==
    IF pipe_cap = 0
    THEN IF caller_pc = p /\ pipes[p].buf = <<>> THEN Len(pending) ELSE 0
    ELSE Min(pipe_cap - Len(pipes[p].buf), Len(pending))

\* one write of the current write_all
worker_write ==
    /\ op = "clean" /\ worker_pc \in Streams
    /\ Writable(worker_pc) > 0
    /\ LET n == Writable(worker_pc)
       IN /\ pipes' = [pipes EXCEPT ![worker_pc].buf = @ \o SubSeq(pending, 1, n)]
          /\ pending' = SubSeq(pending, n + 1, Len(pending))
    /\ UNCHANGED <<op, pipe_cap, worker_pc, caller_pc, output, captured, result>>
    /\ UNCHANGED <<exe_suffix, buildVars, nameVars>>

\* the current write_all has written everything: on to the next one; after
\* the status the closure ends and its three writers are dropped
worker_write_all_returns ==
    /\ op = "clean" /\ worker_pc \in Streams
    /\ pending = <<>>
    /\ IF worker_pc = "stdout"
       THEN worker_pc' = "stderr" /\ pending' = output.stderr /\ UNCHANGED pipes
       ELSE IF worker_pc = "stderr"
       THEN /\ worker_pc' = "status"
            /\ pending' = StatusBytes(output.success)
            /\ UNCHANGED pipes
       ELSE /\ worker_pc' = "gone"
            /\ pipes' = [p \in Streams |-> [pipes[p] EXCEPT !.writer_dropped = TRUE]]
            /\ UNCHANGED pending
    /\ UNCHANGED <<op, pipe_cap, caller_pc, output, captured, result>>
    /\ UNCHANGED <<exe_suffix, buildVars, nameVars>>

\* read_to_string takes what the pipe holds
caller_read ==
    /\ op = "clean" /\ caller_pc \in Streams
    /\ pipes[caller_pc].buf # <<>>
    /\ captured' = [captured EXCEPT ![caller_pc] = @ \o pipes[caller_pc].buf]
    /\ pipes' = [pipes EXCEPT ![caller_pc].buf = <<>>]
    /\ UNCHANGED <<op, pipe_cap, worker_pc, caller_pc, output, pending, result>>
    /\ UNCHANGED <<exe_suffix, buildVars, nameVars>>

clean_result(status, stderr, stdout) ==
    IF status = StatusBytes(TRUE)
    THEN Ok(<<stderr, stdout>>)
    ELSE Err("cargo clean failed")

\* read_to_string reaches the end of the stream: status, then stderr, then
\* stdout, then the result
caller_read_eof ==
    /\ op = "clean" /\ caller_pc \in Streams
    /\ pipes[caller_pc].buf = <<>>
    /\ pipes[caller_pc].writer_dropped
    /\ IF caller_pc = "status"
       THEN caller_pc' = "stderr" /\ UNCHANGED result
       ELSE IF caller_pc = "stderr"
       THEN caller_pc' = "stdout" /\ UNCHANGED result
       ELSE /\ caller_pc' = "returned"
            /\ result' = clean_result(captured["status"], captured["stderr"],
                                      captured["stdout"])
    /\ UNCHANGED <<op, pipe_cap, worker_pc, output, pending, pipes, captured>>
    /\ UNCHANGED <<exe_suffix, buildVars, nameVars>>

clean_crate_return ==
    /\ op = "clean" /\ caller_pc = "returned"
    /\ op' = "idle"
    /\ pipe_cap' = 0
    /\ worker_pc' = "none"
    /\ caller_pc' = "none"
    /\ output' = NoOutput
    /\ pending' = <<>>
    /\ pipes' = EmptyPipes
    /\ captured' = NothingCaptured
    /\ result' = NoResult
    /\ UNCHANGED <<exe_suffix, buildVars, nameVars>>

\* ------------------------------------------------------------ specification
vars == <<op, exe_suffix, buildVars, result, nameVars, cleanVars>>

Init ==
    /\ op = "idle"
    /\ exe_suffix \in ExeSuffixes
    /\ BuildIdle
    /\ manifest_error_before = FALSE
    /\ service = NoService
    /\ shuttle_toml = NoToml
    /\ CleanIdle
    /\ result = NoResult

Next ==
    \/ build_workspace_enter
    \/ metadata_exec
    \/ classify_members
    \/ alpha_batch_begin
    \/ alpha_batch_end
    \/ next_batch_begin
    \/ next_batch_end
    \/ build_workspace_return
    \/ service_name_call
    \/ service_name_return
    \/ clean_crate_enter
    \/ worker_run
    \/ worker_write
    \/ worker_write_all_returns
    \/ caller_read
    \/ caller_read_eof
    \/ clean_crate_return

Spec == Init /\ [][Next]_vars

\* ---------------------------------------------- what the claims talk about
\* These read the data of the call only; none uses an operator of the model
\* of build_workspace, so that each is decided by what the actions did.
Returned == op = "build" /\ pc = "done"

ReturnedOk == Returned /\ result.ok

DeclaresNext(m) == NEXT_NAME \in m.dependencies

DeclaresAlpha(m) == RUNTIME_NAME \in m.dependencies

HasKind(m, kind) == \E t \in m.targets : kind \in t.kind

\* the class the spec gives a member: WasmLibrary has precedence
ClassOf(m) ==
    IF DeclaresNext(m) THEN "next"
    ELSE IF DeclaresAlpha(m) THEN "alpha" ELSE "none"

\* the names of the members of one class, in workspace order
NamesOfClass(ms, class) ==
    LET sel == SelectSeq(ms, LAMBDA m : ClassOf(m) = class)
    IN [i \in 1..Len(sel) |-> sel[i].name]

Invocations(target) ==
    {i \in 1..Len(cargo_log) : cargo_log[i].command.target = target}

\* the batch of this target could not be compiled: compiler returned Err
CompileFailed(target) ==
    \/ \E i \in Invocations(target) : cargo_log[i].status = "failed_to_run"
    \/ /\ Returned /\ result = Err(ErrJobs)
       /\ Invocations(target) = {}
       /\ IF target = "host"
          THEN alpha_packages # <<>>
          ELSE next_packages # <<>> /\
               (alpha_packages = <<>> \/ Invocations("host") # {})

\* C1: whenever a cargo build process of the call exited with a non-zero
\* status, build_workspace returns an error (and so no BuiltService).
C1_NonZeroExitIsAnError ==
    (Returned /\ \E i \in 1..Len(cargo_log) : cargo_log[i].status = "exit1")
        => ~result.ok

Offending(m) ==
    \/ DeclaresAlpha(m) /\ ~DeclaresNext(m) /\ ~HasKind(m, "bin")
    \/ DeclaresNext(m) /\ ~DeclaresAlpha(m) /\ ~HasKind(m, "cdylib")

WellConfigured(m) ==
    \/ ClassOf(m) = "alpha" /\ HasKind(m, "bin")
    \/ ClassOf(m) = "next" /\ HasKind(m, "cdylib")

ExpectedInvocations(ms, target, class) ==
    IF NamesOfClass(ms, class) = <<>> THEN <<>>
    ELSE <<[target |-> target, packages |-> NamesOfClass(ms, class)]>>

\* C4: a successful build started one cargo process per non-empty class,
\* each carrying exactly the packages of its class, one selector each.
C4_OneInvocationPerClass ==
    ReturnedOk =>
        [i \in 1..Len(cargo_log) |->
            [target |-> cargo_log[i].command.target,
             packages |-> cargo_log[i].command.packages]]
          = ExpectedInvocations(members, "host", "alpha") \o
            ExpectedInvocations(members, "wasm32-wasi", "next")

C4_Witness ==
    /\ ReturnedOk
    /\ Len(cargo_log) = 1
    /\ Len(cargo_log[1].command.packages) = 2
    /\ Len(result.value) = 2

\* C5: a cargo process for the next batch is started only after the one for
\* the alpha batch has ended; a returned sequence lists the alpha packages
\* in workspace order, then the next packages in workspace order.
C5_AlphaBeforeNext ==
    /\ \A i, j \in 1..Len(cargo_log) :
          (i < j) => /\ cargo_log[i].command.target = "host"
                     /\ cargo_log[j].command.target = "wasm32-wasi"
                     /\ cargo_log[i].status # "running"
    /\ ReturnedOk =>
          /\ [i \in 1..Len(result.value) |-> result.value[i].package_name]
               = NamesOfClass(members, "alpha") \o NamesOfClass(members, "next")
          /\ \A i \in 1..Len(result.value) :
                result.value[i].is_wasm
                  <=> i > Len(NamesOfClass(members, "alpha"))

C5_Witness ==
    /\ ReturnedOk
    /\ Len(members) = 2
    /\ ClassOf(members[1]) = "next"
    /\ ClassOf(members[2]) = "alpha"
    /\ Len(cargo_log) = 2
    /\ [i \in 1..2 |-> result.value[i].package_name] = <<NameOf(2), NameOf(1)>>

\* the path the spec gives an artifact
ReferencePath(root, name, profile, wasm, suffix) ==
    IF wasm
    THEN [dirs |-> <<root, "target", "wasm32-wasi",
                     IF profile = "dev" THEN "debug" ELSE "release">>,
          file |-> name \o <<".", "w", "a", "s", "m">>]
    ELSE [dirs |-> <<root, "target",
                     IF profile = "dev" THEN "debug" ELSE "release">>,
          file |-> name \o suffix]

\* C6: every returned executable_path is the reference path for the profile
\* flag cargo was given and the executable suffix of the platform.
C6_ExecutablePathIsReference ==
    ReturnedOk =>
        \A i \in 1..Len(result.value) :
            \E k \in 1..Len(cargo_log) :
                /\ \E n \in 1..Len(cargo_log[k].command.packages) :
                      cargo_log[k].command.packages[n]
                        = result.value[i].package_name
                /\ cargo_log[k].command.profile \in {"dev", "release"}
                /\ result.value[i].executable_path =
                      ReferencePath(ProjectPath, result.value[i].package_name,
                                    cargo_log[k].command.profile,
                                    result.value[i].is_wasm, exe_suffix)

\* what the spec makes resolve_name return
ValidProjectName(name) ==
    name # <<>> /\ \A i \in 1..Len(name) : name[i] \in ProjectNameChars

OverrideGivesString(file) ==
    /\ file.state = "table"
    /\ "name" \in DOMAIN file.table
    /\ file.table["name"].type = "string"

\* C7: service_name returns the name of Shuttle.toml when that is a valid
\* project name, and the package name on any failure of that path; it fails
\* only when the package name is no valid project name.
C7_FallsBackToPackageName ==
    op = "name" =>
        IF OverrideGivesString(shuttle_toml)
             /\ ValidProjectName(shuttle_toml.table["name"].str)
        THEN result = Ok(shuttle_toml.table["name"].str)
        ELSE IF ValidProjectName(service.package_name)
        THEN result = Ok(service.package_name)
        ELSE ~result.ok

\* C8: a build_workspace call that finds no manifest has returned the
\* manifest error, and has run neither cargo metadata nor cargo build nor
\* touched anything else, whatever calls went before it (among them calls
\* that returned the manifest error themselves).
C8_ManifestAbsent ==
    (op = "build" /\ ~manifest_exists) =>
        /\ pc = "done"
        /\ result = Err(ErrManifest)
        /\ metadata_calls = 0
        /\ cargo_log = <<>>
        /\ members = <<>> /\ runtimes = <<>>
        /\ alpha_packages = <<>> /\ next_packages = <<>>

C8_Witness ==
    /\ op = "build" /\ ~manifest_exists
    /\ pc = "done"
    /\ manifest_error_before
    /\ result = Err(ErrManifest)

\* C9: once the cargo clean process has exited, the worker or the caller can
\* always take its next step until clean_crate has returned, and what it
\* returns is CleanFailed for a non-zero exit and else (stderr, stdout) as
\* the process wrote them.
C9_CleanReturns ==
    /\ (op = "clean" /\ worker_pc # "run" /\ caller_pc # "returned") =>
          ENABLED (worker_write \/ worker_write_all_returns
                     \/ caller_read \/ caller_read_eof)
    /\ (op = "clean" /\ caller_pc = "returned") =>
          result = IF output.success
                   THEN Ok(<<output.stderr, output.stdout>>)
                   ELSE Err("cargo clean failed")

\* C10: a successful build returns exactly one BuiltService per member that
\* declares a marker, with is_wasm set exactly for the members declaring the
\* next marker, the invocation directory and the member's own name and
\* manifest path; a member declaring both markers goes to the wasm batch
\* only and is never asked for a "bin" target.
C10_OneClassPerMember ==
    /\ ReturnedOk =>
          /\ Len(result.value) =
                Cardinality({i \in 1..Len(members) :
                                DeclaresNext(members[i]) \/ DeclaresAlpha(members[i])})
          /\ \A i, j \in 1..Len(result.value) :
                result.value[i].package_name = result.value[j].package_name
                    => i = j
          /\ \A i \in 1..Len(result.value) :
                \E k \in 1..Len(members) :
                    /\ DeclaresNext(members[k]) \/ DeclaresAlpha(members[k])
                    /\ result.value[i].package_name = members[k].name
                    /\ result.value[i].manifest_path = members[k].manifest_path
                    /\ result.value[i].is_wasm = DeclaresNext(members[k])
                    /\ result.value[i].working_directory = Cwd
    /\ \A k \in 1..Len(cargo_log), i \in 1..Len(members) :
          (\E n \in 1..Len(cargo_log[k].command.packages) :
               cargo_log[k].command.packages[n] = members[i].name)
            => (cargo_log[k].command.target = "wasm32-wasi"
                  <=> DeclaresNext(members[i]))
    /\ (Returned /\ result = Err(ErrNotBinary)) =>
          \E i \in 1..Len(members) :
              /\ DeclaresAlpha(members[i]) /\ ~DeclaresNext(members[i])
              /\ ~HasKind(members[i], "bin")

C10_Witness ==
    /\ ReturnedOk
    /\ Len(members) = 2
    /\ DeclaresNext(members[1]) /\ DeclaresAlpha(members[1])
    /\ ~HasKind(members[1], "bin")
    /\ ClassOf(members[2]) = "alpha"
    /\ Len(result.value) = 2
    /\ result.value[2].package_name = NameOf(1)
    /\ result.value[2].is_wasm
====
